---- MODULE Spec2Model ----
(***************************************************************************)
(* corrkit: IMAP -> Markdown thread store.                                 *)
(*                                                                         *)
(* Text is modelled character by character: a string is a sequence of      *)
(* characters and a character is a one-element TLA+ string.  NL is the     *)
(* line feed and EM the em dash U+2014 that separates sender and date in   *)
(* a message heading.  The three regular expressions of the program        *)
(* (META_RE, MSG_HEADER_RE, THREAD_ID_RE) are matched the way the regex    *)
(* crate matches them: leftmost start, lazy/greedy priorities and          *)
(* backtracking included, with \s matching the line feed and `.` not.      *)
(***************************************************************************)
EXTENDS Integers, Sequences, FiniteSets, TLC

VARIABLES
    fs,        \* the file system: directory -> (file name -> [text, mtime])
    ret,       \* return value of the last merge_message_to_file call
    hist,      \* ghost: the merge calls made so far, oldest first
    codecIn,   \* codec harness: the Thread handed to thread_to_markdown
    codecOut,  \* codec harness: what parse_thread_markdown returned for it
    config,    \* .corky.toml: [accounts: name -> labels, routing]
    server,    \* the IMAP server: <<account, label>> -> [uidvalidity, msgs]
    disk,      \* .sync-state.json: account -> (label -> LabelState)
    state,     \* the SyncState of the run in progress
    proc,      \* the sync process: where run() / poll_once() stands
    touched,   \* run(): Option<HashSet<PathBuf>> of files written by the run
    manifest,  \* manifest.toml: slug -> entry
    ev,        \* ghost: what the last step of the process observed and did
    daemon,    \* watch::run: where its loop stands, the shutdown flag, and
               \* (ghost) where poll_once stood when the flag was set
    budget     \* steps left to the environment: runs, changes of the server,
               \* faults, mails without a From header

vars == <<fs, ret, hist, codecIn, codecOut, config,
          server, disk, state, proc, touched, manifest, ev, daemon, budget>>

----------------------------------------------------------------------------
(* Characters and string primitives (Rust str methods used by the code).   *)

NL == "\n"
EM == "EM"
\* Option<T>: Rust's None and Some(v).
None == [some |-> FALSE]

\* No sync process: nothing of run() or poll_once() is on the stack.
IdleProc ==
    [pc |-> "idle", kind |-> "none", full |-> FALSE, names |-> <<>>,
     acct |-> <<>>, labels |-> <<>>, exit |-> "none"]

\* `corky watch` is not running.
NoDaemon == [pc |-> "off", shutdown |-> FALSE, at |-> "none", when |-> "none", after |-> 0]

NoSync ==
    /\ daemon = NoDaemon
    /\ config = [accounts |-> <<>>, routing |-> <<>>]
    /\ server = <<>>
    /\ disk = <<>>
    /\ state = <<>>
    /\ proc = IdleProc
    /\ touched = None
    /\ manifest = <<>>
    /\ ev = [op |-> "none"]
    /\ budget = [runs |-> 0, envs |-> 0, faults |-> 0, anon |-> 0]

Some(v) == [some |-> TRUE, v |-> v]

IsWs(c) == c \in {" ", NL}

IsAlnum(c) ==
    c \in {"a", "b", "c", "d", "e", "f", "g", "h", "i", "j", "k", "l", "m",
           "n", "o", "p", "q", "r", "s", "t", "u", "v", "w", "x", "y", "z",
           "0", "1", "2", "3", "4", "5", "6", "7", "8", "9"}

Lower(c) ==
    CASE c = "R" -> "r" [] c = "E" -> "e" [] c = "F" -> "f" [] c = "W" -> "w"
      [] c = "D" -> "d" [] c = "S" -> "s" [] c = "T" -> "t" [] c = "A" -> "a"
      [] c = "L" -> "l" [] c = "I" -> "i"
      [] OTHER -> c

ToLower(s) == [i \in 1..Len(s) |-> Lower(s[i])]

RECURSIVE FirstNonWs(_, _)
FirstNonWs(s, i) ==
    IF i > Len(s) THEN i
    ELSE IF IsWs(s[i]) THEN FirstNonWs(s, i + 1) ELSE i

RECURSIVE LastNonWs(_, _)
LastNonWs(s, i) ==
    IF i < 1 THEN 0
    ELSE IF IsWs(s[i]) THEN LastNonWs(s, i - 1) ELSE i

Trim(s) == SubSeq(s, FirstNonWs(s, 1), LastNonWs(s, Len(s)))

StartsWithAt(s, i, p) ==
    /\ i + Len(p) - 1 <= Len(s)
    /\ \A k \in 1..Len(p) : s[i + k - 1] = p[k]

RECURSIVE IndexFrom(_, _, _)
IndexFrom(s, c, i) ==
    IF i > Len(s) THEN Len(s) + 1
    ELSE IF s[i] = c THEN i ELSE IndexFrom(s, c, i + 1)

\* Index of the last character of the line that position i lies in.
LineEnd(s, i) == IndexFrom(s, NL, i) - 1

RECURSIVE SplitFrom(_, _, _)
SplitFrom(s, c, i) ==
    LET e == IndexFrom(s, c, i)
    IN  IF e > Len(s) THEN <<SubSeq(s, i, Len(s))>>
        ELSE <<SubSeq(s, i, e - 1)>> \o SplitFrom(s, c, e + 1)

Split(s, c) == SplitFrom(s, c, 1)

RECURSIVE Join(_, _)
Join(parts, sep) ==
    IF Len(parts) = 0 THEN <<>>
    ELSE IF Len(parts) = 1 THEN parts[1]
    ELSE parts[1] \o sep \o Join(Tail(parts), sep)

Contains(seq, x) == \E i \in 1..Len(seq) : seq[i] = x

----------------------------------------------------------------------------
(* src/util.rs                                                             *)

SlugMax == 60

RECURSIVE NextAlnum(_, _)
NextAlnum(s, i) ==
    IF i > Len(s) THEN i
    ELSE IF IsAlnum(s[i]) THEN i ELSE NextAlnum(s, i + 1)

\* SLUG_RE.replace_all(lower, "-"): every run of [^a-z0-9] becomes one hyphen.
RECURSIVE SlugRuns(_, _)
SlugRuns(s, i) ==
    IF i > Len(s) THEN <<>>
    ELSE IF IsAlnum(s[i]) THEN <<s[i]>> \o SlugRuns(s, i + 1)
    ELSE <<"-">> \o SlugRuns(s, NextAlnum(s, i))

RECURSIVE FirstNot(_, _, _)
FirstNot(s, c, i) ==
    IF i > Len(s) THEN i
    ELSE IF s[i] = c THEN FirstNot(s, c, i + 1) ELSE i

RECURSIVE LastNot(_, _, _)
LastNot(s, c, i) ==
    IF i < 1 THEN 0
    ELSE IF s[i] = c THEN LastNot(s, c, i - 1) ELSE i

TrimMatches(s, c) == SubSeq(s, FirstNot(s, c, 1), LastNot(s, c, Len(s)))

\* Lines 17-31: the truncation is empty only when trimmed is.
Truncated(trimmed) ==
    IF trimmed = <<>> THEN <<"u", "n", "t", "i", "t", "l", "e", "d">>
    ELSE IF Len(trimmed) > SlugMax THEN SubSeq(trimmed, 1, SlugMax)
    ELSE trimmed

slugify(text) == Truncated(TrimMatches(SlugRuns(ToLower(text), 1), "-"))

\* THREAD_KEY_RE.replace: ^(re|fwd?):\s* is removed once.
StripReplyPrefix(t) ==
    IF StartsWithAt(t, 1, <<"r", "e", ":">>) THEN SubSeq(t, FirstNonWs(t, 4), Len(t))
    ELSE IF StartsWithAt(t, 1, <<"f", "w", "d", ":">>) THEN SubSeq(t, FirstNonWs(t, 5), Len(t))
    ELSE IF StartsWithAt(t, 1, <<"f", "w", ":">>) THEN SubSeq(t, FirstNonWs(t, 4), Len(t))
    ELSE t

thread_key_from_subject(subject) == StripReplyPrefix(ToLower(Trim(subject)))

----------------------------------------------------------------------------
(* src/sync/markdown.rs                                                    *)

KeyLabels == <<"L", "a", "b", "e", "l", "s">>
KeyAccounts == <<"A", "c", "c", "o", "u", "n", "t", "s">>
KeyThreadId == <<"T", "h", "r", "e", "a", "d", " ", "I", "D">>
KeyLastUpdated == <<"L", "a", "s", "t", " ", "u", "p", "d", "a", "t", "e", "d">>

Bold(key) == <<"*", "*">> \o key \o <<"*", "*", ":">>

MessageLines(msg) ==
    << <<"-", "-", "-">>,
       <<>>,
       <<"#", "#", " ">> \o msg.from \o <<" ", EM, " ">> \o msg.date,
       <<>>,
       Trim(msg.body),
       <<>> >>

RECURSIVE AllMessageLines(_)
AllMessageLines(msgs) ==
    IF Len(msgs) = 0 THEN <<>>
    ELSE MessageLines(Head(msgs)) \o AllMessageLines(Tail(msgs))

thread_to_markdown(thread) ==
    LET head == << <<"#", " ">> \o thread.subject,
                   <<>>,
                   Bold(KeyLabels) \o <<" ">> \o Join(thread.labels, <<",", " ">>),
                   Bold(KeyAccounts) \o <<" ">> \o Join(thread.accounts, <<",", " ">>),
                   Bold(KeyThreadId) \o <<" ">> \o thread.id,
                   Bold(KeyLastUpdated) \o <<" ">> \o thread.last_date,
                   <<>> >>
    IN  Join(head \o AllMessageLines(thread.messages), <<NL>>)

\* The tail `\s*(.+)$` of META_RE and THREAD_ID_RE, tried at position p:
\* \s* is greedy and gives characters back until (.+) finds a character that
\* is not a line feed; (.+) then runs to the end of that line.
RECURSIVE ValueStart(_, _, _)
ValueStart(s, p, q) ==
    IF q < p THEN 0
    ELSE IF q <= Len(s) /\ s[q] # NL THEN q ELSE ValueStart(s, p, q - 1)

ValueFrom(s, q) ==
    IF q = 0 THEN [ok |-> FALSE, val |-> <<>>, end |-> 0]
    ELSE [ok |-> TRUE, val |-> SubSeq(s, q, LineEnd(s, q)), end |-> LineEnd(s, q)]

RestMatch(s, p) == ValueFrom(s, ValueStart(s, p, FirstNonWs(s, p)))

\* The lazy (.+?) of META_RE: the shortest key, within the line, that is
\* followed by **: and by a successful tail.
RECURSIVE MetaKeyEnd(_, _, _)
MetaKeyEnd(s, j, eol) ==
    IF j + 3 > eol THEN 0
    ELSE IF StartsWithAt(s, j + 1, <<"*", "*", ":">>) /\ RestMatch(s, j + 4).ok THEN j
    ELSE MetaKeyEnd(s, j + 1, eol)

MetaAt(s, i, j) ==
    IF j = 0 THEN [ok |-> FALSE]
    ELSE [ok |-> TRUE, key |-> SubSeq(s, i + 2, j),
          val |-> RestMatch(s, j + 4).val, end |-> RestMatch(s, j + 4).end]

META_RE(s, i) ==
    IF ~StartsWithAt(s, i, <<"*", "*">>) THEN [ok |-> FALSE]
    ELSE MetaAt(s, i, MetaKeyEnd(s, i + 2, LineEnd(s, i)))

RECURSIVE MetaScan(_, _, _)
MetaStep(s, i, meta, m) ==
    IF m.ok THEN MetaScan(s, m.end + 2, (m.key :> Trim(m.val)) @@ meta)
    ELSE MetaScan(s, LineEnd(s, i) + 2, meta)

MetaScan(s, i, meta) ==
    IF i > Len(s) THEN meta ELSE MetaStep(s, i, meta, META_RE(s, i))

MetaGet(meta, key) == IF key \in DOMAIN meta THEN meta[key] ELSE <<>>

NonEmpty(t) == IF t = <<>> THEN <<>> ELSE <<t>>

RECURSIVE TrimNonEmpty(_)
TrimNonEmpty(parts) ==
    IF Len(parts) = 0 THEN <<>>
    ELSE NonEmpty(Trim(Head(parts))) \o TrimNonEmpty(Tail(parts))

MetaList(meta, key) ==
    IF key \in DOMAIN meta THEN TrimNonEmpty(Split(meta[key], ",")) ELSE <<>>

\* MSG_HEADER_RE = ^## (.+?) \u{2014} (.+)$ on one line.
RECURSIVE HeaderFromEnd(_, _)
HeaderFromEnd(line, j) ==
    IF j + 4 > Len(line) THEN 0
    ELSE IF StartsWithAt(line, j + 1, <<" ", EM, " ">>) THEN j
    ELSE HeaderFromEnd(line, j + 1)

HeaderAt(line, j) ==
    IF j = 0 THEN [ok |-> FALSE]
    ELSE [ok |-> TRUE, from |-> SubSeq(line, 4, j), date |-> SubSeq(line, j + 4, Len(line))]

MSG_HEADER_RE(line) ==
    IF ~StartsWithAt(line, 1, <<"#", "#", " ">>) THEN [ok |-> FALSE]
    ELSE HeaderAt(line, HeaderFromEnd(line, 4))

ParsedMessage(subject, from, date, body_lines) ==
    [id |-> <<>>, thread_id |-> thread_key_from_subject(subject), from |-> from,
     date |-> date, subject |-> subject, body |-> Trim(Join(body_lines, <<NL>>))]

\* The loop over the lines of parse_thread_markdown; st is
\* [messages, from, date, body_lines, in_message].
\* "Save previous message" / "Save last message".
Saved(subject, st) ==
    IF st.in_message
    THEN Append(st.messages, ParsedMessage(subject, st.from, st.date, st.body_lines))
    ELSE st.messages

\* One iteration of the loop: the state after the line.
ScanLine(line, subject, st, cap) ==
    IF cap.ok
    THEN [messages |-> Saved(subject, st), from |-> cap.from, date |-> cap.date,
          body_lines |-> <<>>, in_message |-> TRUE]
    ELSE IF st.in_message /\ Trim(line) # <<"-", "-", "-">>
    THEN [st EXCEPT !.body_lines = Append(@, line)]
    ELSE st

RECURSIVE MessageScan(_, _, _, _)
MessageScan(lines, k, subject, st) ==
    IF k > Len(lines) THEN Saved(subject, st)
    ELSE MessageScan(lines, k + 1, subject,
                     ScanLine(lines[k], subject, st, MSG_HEADER_RE(lines[k])))

\* The first line that starts with "# ", or 0.
RECURSIVE FirstH1(_, _)
FirstH1(lines, k) ==
    IF k > Len(lines) THEN 0
    ELSE IF StartsWithAt(lines[k], 1, <<"#", " ">>) THEN k ELSE FirstH1(lines, k + 1)

ParsedThread(subject, meta, messages) ==
    [id |-> MetaGet(meta, KeyThreadId),
     subject |-> subject,
     labels |-> MetaList(meta, KeyLabels),
     accounts |-> MetaList(meta, KeyAccounts),
     messages |-> messages,
     last_date |-> MetaGet(meta, KeyLastUpdated)]

ParseWithSubject(text, lines, subject) ==
    IF subject = <<>> THEN None
    ELSE Some(ParsedThread(subject, MetaScan(text, 1, <<>>),
                           MessageScan(lines, 1, subject,
                                       [messages |-> <<>>, from |-> <<>>, date |-> <<>>,
                                        body_lines |-> <<>>, in_message |-> FALSE])))

ParseWithH1(text, lines, h) ==
    IF h = 0 THEN None
    ELSE ParseWithSubject(text, lines, Trim(SubSeq(lines[h], 3, Len(lines[h]))))

parse_thread_markdown(text) ==
    ParseWithH1(text, Split(text, NL), FirstH1(Split(text, NL), 1))

----------------------------------------------------------------------------
(* src/sync/imap_sync.rs: the Thread Merge Engine                          *)

\* Dates: the model's date strings are the one-digit strings "1" .. "9",
\* standing for nine instants after 1970 in increasing order; every other
\* string (the empty one included) fails both parsers and gives the epoch, 0.
parse_msg_date(date_str) ==
    IF Len(date_str) = 1 /\ date_str[1] \in {"1", "2", "3", "4", "5", "6", "7", "8", "9"}
    THEN CHOOSE n \in 1..9 : <<"1", "2", "3", "4", "5", "6", "7", "8", "9">>[n] = date_str[1]
    ELSE 0

\* Path::extension() == Some("md")
RECURSIVE LastIndexOf(_, _, _)
LastIndexOf(s, c, i) ==
    IF i < 1 THEN 0
    ELSE IF s[i] = c THEN i ELSE LastIndexOf(s, c, i - 1)

IsMd(name) ==
    /\ LastIndexOf(name, ".", Len(name)) > 1
    /\ SubSeq(name, LastIndexOf(name, ".", Len(name)) + 1, Len(name)) = <<"m", "d">>

RECURSIVE THREAD_ID_RE(_, _)
ThreadIdAt(s, i, r) ==
    IF r.ok THEN Some(r.val) ELSE THREAD_ID_RE(s, LineEnd(s, i) + 2)

THREAD_ID_RE(s, i) ==
    IF i > Len(s) THEN None
    ELSE IF StartsWithAt(s, i, Bold(KeyThreadId))
    THEN ThreadIdAt(s, i, RestMatch(s, i + Len(Bold(KeyThreadId))))
    ELSE THREAD_ID_RE(s, LineEnd(s, i) + 2)

CaptureIs(cap, thread_id) == cap.some /\ Trim(cap.v) = thread_id

ThreadIdMatches(text, thread_id) == CaptureIs(THREAD_ID_RE(text, 1), thread_id)

\* find_thread_file returns the first match in read_dir order, an order the
\* file system chooses: every matching file is a possible result.
FirstOf(hits) == IF hits = {} THEN {None} ELSE { Some(n) : n \in hits }

find_thread_file(files, thread_id) ==
    FirstOf({ n \in DOMAIN files : IsMd(n) /\ ThreadIdMatches(files[n].text, thread_id) })

RECURSIVE Decimal(_)
Decimal(n) ==
    IF n < 10 THEN <<(<<"0", "1", "2", "3", "4", "5", "6", "7", "8", "9">>)[n + 1]>>
    ELSE Decimal(n \div 10) \o Decimal(n % 10)

MdName(stem) == stem \o <<".", "m", "d">>

RECURSIVE UniqueSuffix(_, _, _)
UniqueSuffix(files, slug, n) ==
    IF MdName(slug \o <<"-">> \o Decimal(n)) \in DOMAIN files
    THEN UniqueSuffix(files, slug, n + 1)
    ELSE n

\* unique_slug without the test for an existing file.
unique_slug_unchecked(files, slug) == slug

unique_slug(files, slug) ==
    IF MdName(slug) \notin DOMAIN files THEN slug
    ELSE slug \o <<"-">> \o Decimal(UniqueSuffix(files, slug, 2))

\* sort_by_key is a stable sort.
InsertAt(sorted, m, k) == SubSeq(sorted, 1, k) \o <<m>> \o SubSeq(sorted, k + 1, Len(sorted))

InsertByDate(sorted, m) ==
    InsertAt(sorted, m,
             Cardinality({ i \in 1..Len(sorted) :
                             parse_msg_date(sorted[i].date) <= parse_msg_date(m.date) }))

RECURSIVE SortByDate(_)
SortByDate(msgs) ==
    IF Len(msgs) <= 1 THEN msgs
    ELSE InsertByDate(SortByDate(SubSeq(msgs, 1, Len(msgs) - 1)), msgs[Len(msgs)])

\* std::fs::write followed by set_mtime: the modification time is the parsed
\* date when its year is after 1970, and otherwise stays the time of the
\* write, written 0 here.
WriteThread(files, name, thread) ==
    (name :> [text |-> thread_to_markdown(thread),
              mtime |-> parse_msg_date(thread.last_date)]) @@ files

AccumulateLabel(list, name) ==
    IF name # <<>> /\ ~Contains(list, name) THEN Append(list, name) ELSE list

IsDuplicate(thread, message) ==
    \E i \in 1..Len(thread.messages) :
        /\ thread.messages[i].from = message.from
        /\ thread.messages[i].date = message.date

\* Lines 134-148: the thread read from the existing file, or a fresh one.
FreshThread(message, thread_key) ==
    [id |-> thread_key, subject |-> message.subject, labels |-> <<>>,
     accounts |-> <<>>, messages |-> <<>>, last_date |-> <<>>]

UnwrapOrFresh(parsed, message, thread_key) ==
    IF parsed.some THEN parsed.v ELSE FreshThread(message, thread_key)

LoadThread(files, existing_file, message, thread_key) ==
    IF existing_file.some
    THEN UnwrapOrFresh(parse_thread_markdown(files[existing_file.v].text), message, thread_key)
    ELSE FreshThread(message, thread_key)

\* Lines 150-156.
Accumulate(thread, label_name, account_name) ==
    [thread EXCEPT !.labels = AccumulateLabel(@, label_name),
                   !.accounts = AccumulateLabel(@, account_name)]

\* WriteDuplicate without the write of lines 166-169.
WriteDuplicate_not_persisted(files, existing_file, thread) ==
    [files |-> files, ret |-> existing_file]

\* Lines 164-171: the duplicate path.
WriteDuplicate(files, existing_file, thread) ==
    [files |-> IF existing_file.some THEN WriteThread(files, existing_file.v, thread)
               ELSE files,
     ret |-> existing_file]

\* Lines 173-179.
WithMessages(thread, sorted) ==
    [thread EXCEPT !.messages = sorted, !.last_date = sorted[Len(sorted)].date]

\* Lines 173-174.
InsertMessage(thread, message) ==
    WithMessages(thread, SortByDate(Append(thread.messages, message)))

\* Lines 181-186.
FilePath(files, existing_file, thread) ==
    IF existing_file.some THEN existing_file.v
    ELSE MdName(unique_slug(files, slugify(thread.subject)))

\* Lines 188-195.
WriteInserted(files, existing_file, thread) ==
    [files |-> WriteThread(files, FilePath(files, existing_file, thread), thread),
     ret |-> Some(FilePath(files, existing_file, thread))]

MergeInto(files, existing_file, thread, message) ==
    IF IsDuplicate(thread, message)
    THEN WriteDuplicate(files, existing_file, thread)
    ELSE WriteInserted(files, existing_file, InsertMessage(thread, message))

\* merge_message_to_file, given the result of find_thread_file:
\* [files |-> the directory afterwards, ret |-> the Option<PathBuf> returned].
merge_message_to_file(files, existing_file, label_name, account_name, message, thread_key) ==
    MergeInto(files, existing_file,
              Accumulate(LoadThread(files, existing_file, message, thread_key),
                         label_name, account_name),
              message)

----------------------------------------------------------------------------
(* Merge harness: messages are merged one after the other into the primary *)
(* conversation directory, which starts empty, each with the thread key    *)
(* sync_label derives from its subject.                                    *)

MaxMerges == 3

ConvDir == <<"conversations">>

Msg(id, subject, from, date, body) ==
    [id |-> id, thread_id |-> thread_key_from_subject(subject), from |-> from,
     date |-> date, subject |-> subject, body |-> body]

MergeMessages ==
    { Msg(<<"1">>, <<"S">>, <<"a">>, <<"2">>, <<"x">>),
      Msg(<<"2">>, <<"R", "e", ":", " ", "S">>, <<"b">>, <<"1">>, <<"y">>),
      Msg(<<"3">>, <<"S">>, <<"b">>, <<"2">>, <<"y">>),
      Msg(<<"4">>, <<"T">>, <<"a">>, <<"2">>, <<"x">>),
      \* no From header: sync_label defaults the sender to the empty string
      Msg(<<"5">>, <<"S">>, <<>>, <<"3">>, <<"x">>),
      \* an empty Subject header
      Msg(<<"6">>, <<>>, <<"a">>, <<"1">>, <<"x">>),
      \* a body line that has the shape of a message heading
      Msg(<<"7">>, <<"S">>, <<"a">>, <<"3">>, <<"#", "#", " ", "z", " ", EM, " ", "1">>),
      \* other thread keys whose subject has the slug of S
      Msg(<<"8">>, <<"S", "!">>, <<"a">>, <<"1">>, <<"x">>),
      Msg(<<"9">>, <<"S", "?">>, <<"b">>, <<"2">>, <<"x">>) }

InitMerge ==
    /\ fs = [d \in {ConvDir} |-> <<>>]
    /\ ret = None
    /\ hist = <<>>
    /\ codecIn = None
    /\ codecOut = [done |-> TRUE]
    /\ NoSync

Merged(message, label_name, account_name, r) ==
    /\ fs' = [fs EXCEPT ![ConvDir] = r.files]
    /\ ret' = r.ret
    /\ hist' = Append(hist, [message |-> message, label |-> label_name,
                             account |-> account_name,
                             thread_key |-> message.thread_id, ret |-> r.ret])

Merge(message, label_name, account_name) ==
    /\ Len(hist) < MaxMerges
    /\ \E existing_file \in find_thread_file(fs[ConvDir], message.thread_id) :
          Merged(message, label_name, account_name,
                 merge_message_to_file(fs[ConvDir], existing_file, label_name,
                                       account_name, message, message.thread_id))
    /\ UNCHANGED <<codecIn, codecOut, config, server, disk, state, proc, touched, manifest, ev,
                   budget, daemon>>

\* The label and account of a call: a label of account p, the empty label,
\* and a label of account q merged without an account name.
MergeTargets == { << <<"l">>, <<"p">> >>, << <<>>, <<"q">> >>, << <<"m">>, <<>> >> }

NextMerge ==
    \E message \in MergeMessages, target \in MergeTargets : Merge(message, target[1], target[2])

SpecMerge == InitMerge /\ [][NextMerge]_vars

\* A directory that holds s.md, the file of thread s with one message, as
\* the program wrote it or after an edit by hand: the H1 line deleted, or
\* the heading emptied. The Thread ID line is intact in all three.
InitEdited ==
    /\ \E text \in { thread_to_markdown([id |-> <<"s">>, subject |-> <<"S">>,
                                          labels |-> << <<"l">> >>, accounts |-> << <<"p">> >>,
                                          messages |-> << Msg(<<"1">>, <<"S">>, <<"a">>, <<"2">>, <<"x">>) >>,
                                          last_date |-> <<"2">>]) } :
         \E edited \in { text, SubSeq(text, 5, Len(text)),
                         <<"#", " ">> \o SubSeq(text, 4, Len(text)) } :
            fs = [d \in {ConvDir} |-> (MdName(<<"s">>) :> [text |-> edited, mtime |-> 2])]
    /\ ret = None
    /\ hist = <<>>
    /\ codecIn = None
    /\ codecOut = [done |-> TRUE]
    /\ NoSync

SpecEdited ==
    InitEdited /\ [][\E message \in { m \in MergeMessages : m.id \in { <<"1">>, <<"3">>, <<"4">>, <<"8">> } }, target \in MergeTargets : Merge(message, target[1], target[2])]_vars

----------------------------------------------------------------------------
(* Claims about the Thread Merge Engine (SpecMerge).                       *)

HeadingLine(m) == <<"#", "#", " ">> \o m.from \o <<" ", EM, " ">> \o m.date

\* The number of message sections of a file that carry the heading of m.
SectionCount(text, m) ==
    LET lines == Split(text, NL)
    IN  Cardinality({ k \in 1..Len(lines) : lines[k] = HeadingLine(m) })

DecodedFile(dir, name) == parse_thread_markdown(fs[dir][name].text)

IsSortedByDate(msgs) ==
    \A i \in 1..(Len(msgs) - 1) :
        parse_msg_date(msgs[i].date) <= parse_msg_date(msgs[i + 1].date)

\* C1: when a message that was merged before is merged again with the same
\* thread key into the same directory, the file the merge returns holds
\* exactly one copy of it.
C1_MergedTwiceOneCopy ==
    \A i \in 1..(Len(hist) - 1) :
        LET last == hist[Len(hist)]
        IN  (hist[i].message = last.message /\ hist[i].thread_key = last.thread_key
             /\ last.ret.some)
            => SectionCount(fs[ConvDir][last.ret.v].text, last.message) = 1

\* C2: the messages decoded from every thread file are sorted ascending by
\* parse_msg_date(date), whatever the order the messages were merged in.
C2_DecodedSorted ==
    \A name \in DOMAIN fs[ConvDir] :
        LET t == DecodedFile(ConvDir, name)
        IN  t.some => IsSortedByDate(t.v.messages)

\* C3: two merged messages are in the same thread file if and only if their
\* thread keys are equal.
C3_SameFileIffSameKey ==
    \A i, j \in 1..Len(hist) :
        (hist[i].ret.some /\ hist[j].ret.some)
        => ((hist[i].ret.v = hist[j].ret.v) <=> (hist[i].thread_key = hist[j].thread_key))

\* slug.md for n = 1 and slug-n.md for n > 1.
SlugName(slug, n) ==
    IF n = 1 THEN MdName(slug) ELSE MdName(slug \o <<"-">> \o Decimal(n))

\* The first of slug.md, slug-2.md, slug-3.md, ... that is not in names.
FirstFreeName(names, slug) ==
    SlugName(slug, CHOOSE n \in 1..(Cardinality(names) + 1) :
                     /\ SlugName(slug, n) \notin names
                     /\ \A k \in 1..(n - 1) : SlugName(slug, k) \in names)

\* The call a Merge step adds to the history.
LastCall == hist'[Len(hist')]

\* C12: a merge for a thread key that has no file in the directory writes
\* to the first of slug.md, slug-2.md, slug-3.md, ... that does not exist;
\* no merge removes a file, and the only file a merge may change is one that
\* carries the thread key of the call.
C12_NoOverwrite ==
    [][ Len(hist') = Len(hist) + 1 =>
          /\ find_thread_file(fs[ConvDir], LastCall.thread_key) = {None}
                => LastCall.ret = Some(FirstFreeName(DOMAIN fs[ConvDir],
                                                     slugify(LastCall.message.subject)))
          /\ \A n \in DOMAIN fs[ConvDir] :
                /\ n \in DOMAIN fs'[ConvDir]
                /\ fs'[ConvDir][n] # fs[ConvDir][n]
                      => ThreadIdMatches(fs[ConvDir][n].text, LastCall.thread_key)
      ]_vars

\* Three thread keys with the slug s arrived: s.md, s-2.md, s-3.md.
C12_Witness ==
    /\ Len(hist) = 3
    /\ \A i, j \in 1..3 : i # j => hist[i].thread_key # hist[j].thread_key
    /\ hist[1].ret = Some(<<"s", ".", "m", "d">>)
    /\ hist[2].ret = Some(<<"s", "-", "2", ".", "m", "d">>)
    /\ hist[3].ret = Some(<<"s", "-", "3", ".", "m", "d">>)
    /\ DOMAIN fs[ConvDir] = { hist[i].ret.v : i \in 1..3 }

----------------------------------------------------------------------------
(* Codec harness: a Thread value is encoded and the text decoded again.    *)

MaxCodecMsgs == 2

CodecMessages ==
    { [id |-> <<>>, thread_id |-> <<"s">>, from |-> f, date |-> d, subject |-> <<"s">>,
       body |-> b] :
        f \in {<<"a">>, <<"b">>}, d \in {<<"1">>, <<"2">>}, b \in {<<"x">>, <<"x", NL, "y">>} }

CodecThreads ==
    { [id |-> id, subject |-> <<"S">>, labels |-> ls, accounts |-> as,
       messages |-> ms, last_date |-> IF Len(ms) = 0 THEN <<>> ELSE ms[Len(ms)].date] :
        id \in {<<>>, <<"s">>},
        ls \in {<<>>, << <<"l">> >>, << <<"l">>, <<"m">> >>},
        as \in {<<>>, << <<"p">> >>},
        ms \in UNION { [1..n -> CodecMessages] : n \in 0..MaxCodecMsgs } }

InitCodec ==
    /\ codecIn \in CodecThreads
    /\ codecOut = [done |-> FALSE]
    /\ fs = <<>>
    /\ ret = None
    /\ hist = <<>>
    /\ NoSync

RoundTrip ==
    /\ ~codecOut.done
    /\ codecOut' = [done |-> TRUE, text |-> thread_to_markdown(codecIn),
                    parsed |-> parse_thread_markdown(thread_to_markdown(codecIn))]
    /\ UNCHANGED <<fs, ret, hist, codecIn, config, server, disk, state, proc, touched, manifest,
                   ev, budget, daemon>>

SpecCodec == InitCodec /\ [][RoundTrip]_vars

----------------------------------------------------------------------------
(* Claims about the Markdown Codec (SpecCodec).                            *)

SameMessages(a, b) ==
    /\ Len(a) = Len(b)
    /\ \A i \in 1..Len(a) :
        /\ a[i].from = b[i].from
        /\ a[i].date = b[i].date
        /\ a[i].body = Trim(b[i].body)

\* C4: decoding the encoding of a Thread gives back its subject, id,
\* labels, accounts and messages (from, date, trimmed body); metadata that
\* is empty decodes to the empty string or the empty list.
C4_RoundTrip ==
    codecOut.done =>
        /\ codecOut.parsed.some
        /\ codecOut.parsed.v.subject = codecIn.subject
        /\ codecOut.parsed.v.id = codecIn.id
        /\ codecOut.parsed.v.labels = codecIn.labels
        /\ codecOut.parsed.v.accounts = codecIn.accounts
        /\ SameMessages(codecOut.parsed.v.messages, codecIn.messages)

----------------------------------------------------------------------------
(* The configurations (.corky.toml) the sync runs are modelled under.       *)

\* Two accounts with one label each; the routing key a:m sends label m of
\* account a to the shared mailbox.
TwoAccounts ==
    [accounts |-> (<<"a">> :> <<<<"l">>>>) @@ (<<"b">> :> <<<<"l">>>>),
     routing |-> << [key |-> <<"a", ":", "m">>, mailbox_paths |-> << "shared" >>] >>]

\* One account with one label, nothing routed.
OneAccount == [accounts |-> (<<"a">> :> <<<<"l">>>>), routing |-> <<>>]

\* One account whose label m is also routed to the shared mailbox.
Routed ==
    [accounts |-> (<<"a">> :> <<<<"m">>>>),
     routing |-> << [key |-> <<"a", ":", "m">>, mailbox_paths |-> << "shared" >>] >>]

\* data_dir.join(p).join("conversations"), relative to the data directory.
MailboxConversations(mailbox_paths) ==
    [i \in DOMAIN mailbox_paths |-> <<mailbox_paths[i], "conversations">>]

SharedDir == <<"shared", "conversations">>

Dirs == {ConvDir, SharedDir}

\* RouteExtend with insert in the place of extend.
RouteExtend_replacing(routes, label, dirs) == (label :> dirs) @@ routes

\* routes.entry(label).or_default().extend(dirs)
RouteExtend(routes, label, dirs) ==
    IF label \in DOMAIN routes THEN [routes EXCEPT ![label] = @ \o dirs]
    ELSE (label :> dirs) @@ routes

\* One routing key of the loop; colon is the index of its first ':'.
RouteKey(routes, account_name, label_key, dirs, colon) ==
    IF colon <= Len(label_key)
    THEN IF account_name # <<>> /\ SubSeq(label_key, 1, colon - 1) # account_name
         THEN routes
         ELSE RouteExtend(routes, SubSeq(label_key, colon + 1, Len(label_key)), dirs)
    ELSE RouteExtend(routes, label_key, dirs)

RECURSIVE RoutesFrom(_, _, _)
RoutesFrom(routing, account_name, routes) ==
    IF routing = <<>> THEN routes
    ELSE RoutesFrom(Tail(routing), account_name,
                    RouteKey(routes, account_name, Head(routing).key,
                             MailboxConversations(Head(routing).mailbox_paths),
                             IndexFrom(Head(routing).key, ":", 1)))

build_label_routes(routing, account_name) == RoutesFrom(routing, account_name, <<>>)

\* The orders a HashMap or HashSet can hand its elements out in.
Orders(S) ==
    { q \in [1..Cardinality(S) -> S] : \A i, j \in 1..Cardinality(S) : q[i] = q[j] => i = j }

\* seen_labels.insert(label): the first occurrence of every label, in order.
RECURSIVE Dedup(_, _)
Dedup(labels, seen) ==
    IF labels = <<>> THEN <<>>
    ELSE IF Head(labels) \in seen THEN Dedup(Tail(labels), seen)
    ELSE <<Head(labels)>> \o Dedup(Tail(labels), seen \cup {Head(labels)})

\* labels.iter().chain(routes.keys()), for every order of the route keys.
all_labels(labels, routes) == { Dedup(labels \o keys, {}) : keys \in Orders(DOMAIN routes) }

\* vec![base_dir] extended by routes.get(label).
out_dirs(routes, label) ==
    IF label \in DOMAIN routes THEN <<ConvDir>> \o routes[label] ELSE <<ConvDir>>

----------------------------------------------------------------------------
(* The Label Router on its own: build_label_routes is called once, for an   *)
(* account name or the empty string, under a routing table of at most      *)
(* MaxRouteKeys keys, taken in the order the HashMap hands them out.        *)

MaxRouteKeys == 3

InitRoutes ==
    /\ \E K \in SUBSET { <<"m">>, <<"l">>, <<"a", ":", "m">>, <<"b", ":", "m">>,
                          <<":", "m">>, <<"a", ":", "m", ":", "l">> } :
         /\ Cardinality(K) <= MaxRouteKeys
         /\ \E keys \in Orders(K) :
              \E paths \in [K -> { <<"shared">>, <<"x", "y">> }] :
                 config = [accounts |-> <<>>,
                           routing |-> [i \in DOMAIN keys |->
                                          [key |-> keys[i], mailbox_paths |-> paths[keys[i]]]]]
    /\ fs = <<>>
    /\ ret = None
    /\ hist = <<>>
    /\ codecIn = None
    /\ codecOut = [done |-> TRUE]
    /\ server = <<>>
    /\ disk = <<>>
    /\ state = <<>>
    /\ proc = IdleProc
    /\ touched = None
    /\ manifest = <<>>
    /\ ev = [op |-> "none"]
    /\ daemon = NoDaemon
    /\ budget = [runs |-> 0, envs |-> 0, faults |-> 0, anon |-> 0]

Routes(account_name) ==
    /\ ev.op = "none"
    /\ ev' = [op |-> "routes", account |-> account_name,
              routes |-> build_label_routes(config.routing, account_name)]
    /\ UNCHANGED <<fs, ret, hist, codecIn, codecOut, config, server, disk, state, proc, touched,
                   manifest, daemon, budget>>

SpecRoutes ==
    InitRoutes /\ [][\E account_name \in { <<"a">>, <<"b">>, <<>> } : Routes(account_name)]_vars

----------------------------------------------------------------------------
(* The IMAP server.  A folder has a UIDVALIDITY, the next UID it will      *)
(* assign, and its messages: kind "ok", "bad" (no body, or a body that     *)
(* mailparse rejects), "anon" (a mail without From header) or "blank" (a   *)
(* mail whose Subject header is empty), and whether the SINCE window still *)
(* covers it.                                                              *)
(* A folder is read by one sync_label call of a run and by nothing else,   *)
(* so a change made to it while the run is at another step commutes with   *)
(* that step: the changes are taken between runs.                          *)

MaxUid == 2
MaxUV == 2

\* The folders the configuration syncs: <<account, label>>.
Folders(cfg) ==
    UNION { { <<a, l>> : l \in { cfg.accounts[a][i] : i \in DOMAIN cfg.accounts[a] }
                              \cup DOMAIN build_label_routes(cfg.routing, a) } :
            a \in DOMAIN cfg.accounts }

EmptyFolder(uidvalidity) == [uidvalidity |-> uidvalidity, uidnext |-> 1, msgs |-> <<>>]

Deliver(f, kind) ==
    /\ proc.pc = "idle"
    /\ budget.envs > 0
    /\ server[f].uidnext <= MaxUid
    /\ kind \in {"anon", "blank"} => budget.anon > 0
    /\ server' = [server EXCEPT ![f].msgs = (server[f].uidnext :> [kind |-> kind, recent |-> TRUE]) @@ @,
                                ![f].uidnext = @ + 1]
    /\ budget' = [budget EXCEPT !.envs = @ - 1,
                                !.anon = IF kind \in {"anon", "blank"} THEN @ - 1 ELSE @]
    /\ UNCHANGED <<fs, ret, hist, codecIn, codecOut, config, disk, state, proc, touched, manifest, ev,
            daemon>>

\* The message leaves the window of "SINCE <today - sync_days>".
Expire(f, uid) ==
    /\ proc.pc = "idle"
    /\ budget.envs > 0
    /\ uid \in DOMAIN server[f].msgs
    /\ server[f].msgs[uid].recent
    /\ server' = [server EXCEPT ![f].msgs[uid].recent = FALSE]
    /\ budget' = [budget EXCEPT !.envs = @ - 1]
    /\ UNCHANGED <<fs, ret, hist, codecIn, codecOut, config, disk, state, proc, touched, manifest, ev,
            daemon>>

\* The folder is deleted and created again: a new UIDVALIDITY, UIDs from 1.
Recreate(f) ==
    /\ proc.pc = "idle"
    /\ budget.envs > 0
    /\ server[f].uidvalidity < MaxUV
    /\ server' = [server EXCEPT ![f] = EmptyFolder(server[f].uidvalidity + 1)]
    /\ budget' = [budget EXCEPT !.envs = @ - 1]
    /\ UNCHANGED <<fs, ret, hist, codecIn, codecOut, config, disk, state, proc, touched, manifest, ev,
            daemon>>

\* Lines 422-453: the Message built from the mail the server holds under a
\* UID.  The subject depends on the folder and the ordinal, the sender is the
\* account (the empty string, by unwrap_or_default, when the mail has no From
\* header; the subject is empty when the Subject header is), the date is
\* unique within the folder across its incarnations.
MessageOf(account_name, label_name, uidvalidity, uid, kind) ==
    Msg(Decimal(uid),
        IF kind = "blank" THEN <<>>
        ELSE IF label_name = <<"m">> THEN <<"T">>
        ELSE IF account_name = <<"b">> /\ uid > 1 THEN <<"U">>
        ELSE IF uid % 2 = 0 THEN <<"R", "e", ":", " ", "S">>
        ELSE <<"S">>,
        IF kind = "anon" THEN <<>> ELSE account_name,
        Decimal(uid + MaxUid * (uidvalidity - 1)), <<"x">>)

----------------------------------------------------------------------------
(* sync_label (imap_sync.rs 337-479).                                      *)

\* acct_state.labels.get(label_name)
Prior(labels, label_name) ==
    IF label_name \in DOMAIN labels THEN Some(labels[label_name]) ELSE None

\* do_full without its third disjunct: the stored uidvalidity is not compared.
do_full_without_uidvalidity(full, prior, uidvalidity) ==
    full \/ ~prior.some

\* Line 360.
do_full(full, prior, uidvalidity) ==
    full \/ ~prior.some \/ prior.v.uidvalidity # uidvalidity

\* uid_search("UID n:*"): `*` is the highest UID of the folder, so the range
\* always holds that message, whatever n is.
SearchFrom(folder, n) ==
    { u \in DOMAIN folder.msgs : u >= n \/ \A v \in DOMAIN folder.msgs : v <= u }

\* SearchUids without the filter of line 383.
SearchUids_unfiltered(folder, full_mode, prior) ==
    IF full_mode THEN { u \in DOMAIN folder.msgs : folder.msgs[u].recent }
    ELSE SearchFrom(folder, prior.v.last_uid + 1)

\* Lines 362-384: the ordinals to fetch.  The SINCE search returns the
\* messages still in the date window.
SearchUids(folder, full_mode, prior) ==
    IF full_mode THEN { u \in DOMAIN folder.msgs : folder.msgs[u].recent }
    ELSE { u \in SearchFrom(folder, prior.v.last_uid + 1) : u > prior.v.last_uid }

\* prior.map(|p| p.last_uid).unwrap_or(0)
PriorLastUid(prior) == IF prior.some THEN prior.v.last_uid ELSE 0

\* EmptyResult with the cursor set back to 0.
EmptyResult_reset(prior, uidvalidity) ==
    [uidvalidity |-> uidvalidity, last_uid |-> 0]

\* Lines 386-396: the LabelState stored when the search result is empty.
EmptyResult(prior, uidvalidity) ==
    [uidvalidity |-> uidvalidity, last_uid |-> PriorLastUid(prior)]

\* acct_state.labels.insert(label_name, ls)
InsertLabel(labels, label_name, ls) ==
    [l \in DOMAIN labels \cup {label_name} |-> IF l = label_name THEN ls ELSE labels[l]]

\* The loop state: the file system, the touched set and max_uid.
AfterMerge(st, out_dir, r) ==
    [fs |-> [st.fs EXCEPT ![out_dir] = r.files],
     touched |-> IF st.touched.some /\ r.ret.some
                 THEN Some(st.touched.v \cup {<<out_dir, r.ret.v>>})
                 ELSE st.touched,
     max_uid |-> st.max_uid]

\* Lines 456-457 for one out_dir, for every file find_thread_file can return.
MergeOne(st, out_dir, label_name, account_name, message) ==
    { AfterMerge(st, out_dir,
                 merge_message_to_file(st.fs[out_dir], existing_file, label_name,
                                       account_name, message, message.thread_id)) :
        existing_file \in find_thread_file(st.fs[out_dir], message.thread_id) }

\* Lines 455-463.
RECURSIVE MergeDirs(_, _, _, _, _)
MergeDirs(sts, dirs, label_name, account_name, message) ==
    IF dirs = <<>> THEN sts
    ELSE MergeDirs(UNION { MergeOne(st, Head(dirs), label_name, account_name, message) :
                             st \in sts },
                   Tail(dirs), label_name, account_name, message)

\* ProcessUid that merges an unparsed mail as if it had parsed.
ProcessUid_merging_unparsed(sts, folder, uid, dirs, label_name, account_name) ==
    { [st EXCEPT !.max_uid = IF uid > @ THEN uid ELSE @] :
        st \in MergeDirs(sts, dirs, label_name, account_name,
                         MessageOf(account_name, label_name, folder.uidvalidity, uid, "ok")) }

\* Lines 403-467: one ordinal of the fetch loop.  A message without a body or
\* one that does not parse is skipped by `continue`.
ProcessUid(sts, folder, uid, dirs, label_name, account_name) ==
    IF folder.msgs[uid].kind = "bad" THEN sts
    ELSE { [st EXCEPT !.max_uid = IF uid > @ THEN uid ELSE @] :
             st \in MergeDirs(sts, dirs, label_name, account_name,
                              MessageOf(account_name, label_name, folder.uidvalidity, uid,
                                        folder.msgs[uid].kind)) }

\* The first k ordinals of the loop, in the order the HashSet yields them.
RECURSIVE ProcessUids(_, _, _, _, _, _, _)
ProcessUids(sts, folder, order, k, dirs, label_name, account_name) ==
    IF k = 0 THEN sts
    ELSE ProcessUid(ProcessUids(sts, folder, order, k - 1, dirs, label_name, account_name),
                    folder, order[k], dirs, label_name, account_name)

\* What a sync_label call leaves behind.  result is "ok" for Ok(()) and "err"
\* for an error returned with `?`; fault says that a transport fault was used.
Outcome(result, fault, labels, files, touched_set, label_ev) ==
    [result |-> result, fault |-> fault, labels |-> labels, fs |-> files,
     touched |-> touched_set, ev |-> label_ev]

\* A call c of sync_label: its arguments account_name, label_name, labels
\* (acct_state.labels), full, dirs (out_dirs) and touched, the folder the
\* session selects, and the file system files.
LabelEv(c, prior, search, uids, result, post) ==
    [op |-> "sync_label", account |-> c.account_name, label |-> c.label_name,
     full |-> c.full, prior |-> prior, uidvalidity |-> c.folder.uidvalidity,
     search |-> search, uids |-> uids, result |-> result, post |-> post]

SearchKind(c, prior) ==
    IF do_full(c.full, prior, c.folder.uidvalidity) THEN "SINCE" ELSE "UID"

\* SelectFailed returning the error of select to sync_account.
SelectFailed_propagated(c, prior) ==
    Outcome("err", TRUE, c.labels, c.files, c.touched,
            LabelEv(c, prior, "none", {}, "skipped", prior))

\* Lines 349-355: select fails, the label is skipped.
SelectFailed(c, prior) ==
    Outcome("ok", TRUE, c.labels, c.files, c.touched,
            LabelEv(c, prior, "none", {}, "skipped", prior))

\* Lines 375 and 379: uid_search fails.
SearchFailed(c, prior) ==
    Outcome("err", TRUE, c.labels, c.files, c.touched,
            LabelEv(c, prior, SearchKind(c, prior), {}, "err", prior))

\* Lines 386-396.
NoNewMessages(c, prior, ls) ==
    Outcome("ok", FALSE, InsertLabel(c.labels, c.label_name, ls), c.files, c.touched,
            LabelEv(c, prior, SearchKind(c, prior), {}, "ok", Some(ls)))

\* Lines 470-478: the loop ran to its end.
Fetched(c, prior, uids, st, ls) ==
    Outcome("ok", FALSE, InsertLabel(c.labels, c.label_name, ls), st.fs, st.touched,
            LabelEv(c, prior, SearchKind(c, prior), uids, "ok", Some(ls)))

\* Line 403: uid_fetch fails; the ordinals before it have been merged.
FetchFailed(c, prior, uids, st) ==
    Outcome("err", TRUE, c.labels, st.fs, st.touched,
            LabelEv(c, prior, SearchKind(c, prior), uids, "err", prior))

\* The loop state after the first k ordinals of order; max_uid starts at
\* prior.last_uid (line 400).
LoopStates(c, prior, order, k) ==
    ProcessUids({ [fs |-> c.files, touched |-> c.touched, max_uid |-> PriorLastUid(prior)] },
                c.folder, order, k, c.dirs, c.label_name, c.account_name)

\* Lines 398-478, for every order of the ordinals and every point of failure.
FetchLoop(c, prior, uids) ==
    UNION { { Fetched(c, prior, uids, st,
                      [uidvalidity |-> c.folder.uidvalidity, last_uid |-> st.max_uid]) :
                st \in LoopStates(c, prior, order, Len(order)) }
            \cup
            { FetchFailed(c, prior, uids, st) :
                st \in UNION { LoopStates(c, prior, order, k - 1) : k \in 1..Len(order) } } :
            order \in Orders(uids) }

\* Lines 386-478.
AfterSearch(c, prior, uids) ==
    IF uids = {}
    THEN { NoNewMessages(c, prior, EmptyResult(prior, c.folder.uidvalidity)) }
    ELSE FetchLoop(c, prior, uids)

\* Lines 349-478, with prior the stored LabelState of the label.
SyncLabelFrom(c, prior) ==
    { SelectFailed(c, prior), SearchFailed(c, prior) }
    \cup AfterSearch(c, prior,
                     SearchUids(c.folder, do_full(c.full, prior, c.folder.uidvalidity), prior))

\* sync_label: every outcome of the call c.
sync_label(c) == SyncLabelFrom(c, Prior(c.labels, c.label_name))

----------------------------------------------------------------------------
(* cleanup_orphans (mod.rs 101-117) and generate_manifest (manifest.rs).   *)

RemoveFile(files, name) == [n \in DOMAIN files \ {name} |-> files[n]]

\* RemoveIfOrphan without the test of the extension.
RemoveIfOrphan_any_extension(files, dir, name, touched_set) ==
    IF <<dir, name>> \notin touched_set THEN RemoveFile(files, name) ELSE files

\* Line 108-109 for one directory entry.
RemoveIfOrphan(files, dir, name, touched_set) ==
    IF IsMd(name) /\ <<dir, name>> \notin touched_set THEN RemoveFile(files, name) ELSE files

\* The read_dir loop, over the entries not yet visited.
RECURSIVE OrphanLoop(_, _, _, _)
OrphanLoop(files, dir, entries, touched_set) ==
    IF entries = {} THEN files
    ELSE OrphanLoop(RemoveIfOrphan(files, dir, CHOOSE name \in entries : TRUE, touched_set),
                    dir, entries \ { CHOOSE name \in entries : TRUE }, touched_set)

cleanup_orphans(files, dir, touched_set) == OrphanLoop(files, dir, DOMAIN files, touched_set)

\* OrphanStep that reconciles in every run, with nothing touched when the
\* run keeps no touched set.
OrphanStep_every_run(files, dir, touched_opt) ==
    cleanup_orphans(files, dir, IF touched_opt.some THEN touched_opt.v ELSE {})

\* mod.rs 88-90: `if let Some(ref touched_set) = touched`.
OrphanStep(files, dir, touched_opt) ==
    IF touched_opt.some THEN cleanup_orphans(files, dir, touched_opt.v) ELSE files

\* manifest.rs 66-107; no contacts are configured.
ManifestEntry(thread) ==
    [subject |-> thread.subject, thread_id |-> thread.id, labels |-> thread.labels,
     accounts |-> thread.accounts, last_updated |-> thread.last_date, contacts |-> <<>>]

\* The key of an entry is path.file_stem(), the name without ".md".
generate_manifest(files) ==
    [slug \in { SubSeq(n, 1, Len(n) - 3) :
                  n \in { m \in DOMAIN files :
                            IsMd(m) /\ parse_thread_markdown(files[m].text).some } }
        |-> ManifestEntry(parse_thread_markdown(files[MdName(slug)].text).v)]

----------------------------------------------------------------------------
(* run (mod.rs 42-98), poll_once (watch.rs 112-171) and sync_account       *)
(* (imap_sync.rs 264-333), one action per step between two exchanges with  *)
(* the server.                                                             *)

MaxRuns == 2
MaxEnvs == 2
MaxCursorEnvs == 3
MaxFaults == 1
MaxFanoutEnvs == 2
MaxAnon == 1

\* A fresh data directory under configuration cfg, a server whose folders
\* are empty, and envs changes of the server to come, anon of them mails
\* without a From header; watch is the state of `corky watch`.
InitWith(cfg, envs, anon, watch) ==
    /\ fs = [d \in Dirs |-> <<>>]
    /\ ret = None
    /\ hist = <<>>
    /\ codecIn = None
    /\ codecOut = [done |-> TRUE]
    /\ config = cfg
    /\ server = [f \in Folders(cfg) |-> EmptyFolder(1)]
    /\ disk = <<>>
    /\ state = <<>>
    /\ proc = IdleProc
    /\ touched = None
    /\ manifest = <<>>
    /\ ev = [op |-> "none"]
    /\ daemon = watch
    /\ budget = [runs |-> MaxRuns, envs |-> envs, faults |-> MaxFaults, anon |-> anon]

\* The process has returned: its locals are gone.
Exit(code) ==
    /\ proc' = [IdleProc EXCEPT !.exit = code]
    /\ state' = <<>>
    /\ touched' = None

\* mod.rs 42-64.
StartRun(full, account) ==
    /\ proc.pc = "idle"
    /\ budget.runs > 0
    /\ budget' = [budget EXCEPT !.runs = @ - 1]
    /\ IF account.some /\ account.v \notin DOMAIN config.accounts
       THEN /\ Exit("err")
            /\ ev' = [op |-> "run", kind |-> "cli", full |-> full, result |-> "unknown account"]
       ELSE /\ \E names \in IF account.some THEN { <<account.v>> }
                           ELSE Orders(DOMAIN config.accounts) :
                 proc' = [pc |-> "accounts", kind |-> "cli", full |-> full, names |-> names,
                          acct |-> <<>>, labels |-> <<>>, exit |-> "none"]
            /\ state' = IF full THEN <<>> ELSE disk
            /\ touched' = IF full THEN Some({}) ELSE None
            /\ ev' = [op |-> "run", kind |-> "cli", full |-> full, result |-> "started"]
    /\ UNCHANGED <<fs, ret, hist, codecIn, codecOut, config, server, disk, manifest, daemon>>

\* watch.rs 112-122: poll_once is entered.
BeginPoll ==
    /\ budget.runs > 0
    /\ budget' = [budget EXCEPT !.runs = @ - 1]
    /\ \E names \in Orders(DOMAIN config.accounts) :
         proc' = [pc |-> "accounts", kind |-> "watch", full |-> FALSE, names |-> names,
                  acct |-> <<>>, labels |-> <<>>, exit |-> "none"]
    /\ state' = disk
    /\ touched' = None
    /\ ev' = [op |-> "run", kind |-> "watch", full |-> FALSE, result |-> "started"]
    /\ UNCHANGED <<fs, ret, hist, codecIn, codecOut, config, server, disk, manifest>>

\* One watch cycle on its own.
StartPoll ==
    /\ proc.pc = "idle"
    /\ daemon = NoDaemon
    /\ BeginPoll
    /\ UNCHANGED daemon

\* An Err from resolve_password or sync_account: `?` in run() returns it,
\* poll_once() prints it and goes on with the next account.
AccountError(st) ==
    IF proc.kind = "cli"
    THEN Exit("err")
    ELSE /\ proc' = [proc EXCEPT !.pc = "accounts", !.names = Tail(@), !.acct = <<>>,
                                 !.labels = <<>>]
         /\ state' = st
         /\ touched' = touched

\* state.accounts.entry(account_name).or_default()
EntryOrDefault(st, account_name) ==
    IF account_name \in DOMAIN st THEN st
    ELSE (account_name :> [labels |-> <<>>]) @@ st

AccountEv(account_name, result) == [op |-> "account", account |-> account_name, result |-> result]

\* mod.rs 69 / watch.rs 126-132: resolve_password fails.
PasswordFails ==
    /\ proc.pc = "accounts"
    /\ proc.names # <<>>
    /\ budget.faults > 0
    /\ budget' = [budget EXCEPT !.faults = @ - 1]
    /\ AccountError(state)
    /\ ev' = AccountEv(Head(proc.names), "password failed")
    /\ UNCHANGED <<fs, ret, hist, codecIn, codecOut, config, server, disk, manifest, daemon>>

\* imap_sync.rs 278-307: connect_imap fails (connect, TLS or login).
ConnectFails ==
    /\ proc.pc = "accounts"
    /\ proc.names # <<>>
    /\ budget.faults > 0
    /\ budget' = [budget EXCEPT !.faults = @ - 1]
    /\ AccountError(EntryOrDefault(state, Head(proc.names)))
    /\ ev' = AccountEv(Head(proc.names), "connect failed")
    /\ UNCHANGED <<fs, ret, hist, codecIn, codecOut, config, server, disk, manifest, daemon>>

\* imap_sync.rs 278-307: the session is open, or there is no label to sync.
Connect ==
    /\ proc.pc = "accounts"
    /\ proc.names # <<>>
    /\ \E labels \in all_labels(config.accounts[Head(proc.names)],
                                 build_label_routes(config.routing, Head(proc.names))) :
         IF labels = <<>>
         THEN /\ proc' = [proc EXCEPT !.names = Tail(@)]
              /\ ev' = AccountEv(Head(proc.names), "no labels")
         ELSE /\ proc' = [proc EXCEPT !.pc = "labels", !.acct = Head(proc.names),
                                      !.labels = labels]
              /\ ev' = AccountEv(Head(proc.names), "connected")
    /\ state' = EntryOrDefault(state, Head(proc.names))
    /\ UNCHANGED <<fs, ret, hist, codecIn, codecOut, config, server, disk, touched, manifest, budget,
            daemon>>

\* imap_sync.rs 309-326: one sync_label call of the label loop.
SyncLabel ==
    /\ proc.pc = "labels"
    /\ proc.labels # <<>>
    /\ \E out \in sync_label(
            [folder |-> server[<<proc.acct, Head(proc.labels)>>],
             label_name |-> Head(proc.labels), account_name |-> proc.acct,
             labels |-> state[proc.acct].labels, full |-> proc.full,
             dirs |-> out_dirs(build_label_routes(config.routing, proc.acct), Head(proc.labels)),
             files |-> fs, touched |-> touched]) :
         /\ out.fault => budget.faults > 0
         /\ budget' = IF out.fault THEN [budget EXCEPT !.faults = @ - 1] ELSE budget
         /\ fs' = out.fs
         /\ ev' = out.ev
         /\ IF out.result = "ok"
            THEN /\ proc' = [proc EXCEPT !.labels = Tail(@)]
                 /\ state' = [state EXCEPT ![proc.acct].labels = out.labels]
                 /\ touched' = out.touched
            ELSE AccountError(state)
    /\ UNCHANGED <<ret, hist, codecIn, codecOut, config, server, disk, manifest, daemon>>

\* imap_sync.rs 331-332: logout, whose error is dropped.
EndAccount ==
    /\ proc.pc = "labels"
    /\ proc.labels = <<>>
    /\ proc' = [proc EXCEPT !.pc = "accounts", !.names = Tail(@), !.acct = <<>>]
    /\ ev' = AccountEv(proc.acct, "done")
    /\ UNCHANGED <<fs, ret, hist, codecIn, codecOut, config, server, disk, state, touched, manifest, budget,
            daemon>>

\* mod.rs 86-90.
Cleanup ==
    /\ proc.pc = "accounts"
    /\ proc.names = <<>>
    /\ proc.kind = "cli"
    /\ fs' = [fs EXCEPT ![ConvDir] = OrphanStep(@, ConvDir, touched)]
    /\ proc' = [proc EXCEPT !.pc = "manifest"]
    /\ ev' = [op |-> "cleanup", before |-> DOMAIN fs[ConvDir], touched |-> touched]
    /\ UNCHANGED <<ret, hist, codecIn, codecOut, config, server, disk, state, touched, manifest, budget,
            daemon>>

\* mod.rs 93.
Manifest ==
    /\ proc.pc = "manifest"
    /\ manifest' = generate_manifest(fs[ConvDir])
    /\ proc' = [proc EXCEPT !.pc = "save"]
    /\ ev' = [op |-> "manifest"]
    /\ UNCHANGED <<fs, ret, hist, codecIn, codecOut, config, server, disk, state, touched, budget, daemon>>

\* mod.rs 95-97.
Save ==
    /\ proc.pc = "save"
    /\ disk' = state
    /\ Exit("ok")
    /\ ev' = [op |-> "save", kind |-> "cli"]
    /\ UNCHANGED <<fs, ret, hist, codecIn, codecOut, config, server, manifest, budget, daemon>>

\* watch.rs 152-170.
SavePoll ==
    /\ proc.pc = "accounts"
    /\ proc.names = <<>>
    /\ proc.kind = "watch"
    /\ disk' = state
    /\ Exit("ok")
    /\ ev' = [op |-> "save", kind |-> "watch"]
    /\ UNCHANGED <<fs, ret, hist, codecIn, codecOut, config, server, manifest, budget, daemon>>

NextSync ==
    \/ \E full \in BOOLEAN, account \in { None, Some(<<"a">>), Some(<<"b">>), Some(<<"z">>) } :
          StartRun(full, account)
    \/ StartPoll
    \/ PasswordFails
    \/ ConnectFails
    \/ Connect
    \/ SyncLabel
    \/ EndAccount
    \/ Cleanup
    \/ Manifest
    \/ Save
    \/ SavePoll
    \/ \E f \in DOMAIN server, kind \in {"ok", "bad", "anon", "blank"} : Deliver(f, kind)
    \/ \E f \in DOMAIN server, uid \in 1..MaxUid : Expire(f, uid)
    \/ \E f \in DOMAIN server : Recreate(f)

\* CLI runs and watch cycles over two accounts and a routed label.
SpecSync == InitWith(TwoAccounts, MaxEnvs, 0, NoDaemon) /\ [][NextSync]_vars

\* CLI runs and watch cycles over one folder.
SpecCursor == InitWith(OneAccount, MaxCursorEnvs, 0, NoDaemon) /\ [][NextSync]_vars

\* One routed label, and a server that also holds mails without From header.
SpecFanout == InitWith(Routed, MaxFanoutEnvs, MaxAnon, NoDaemon) /\ [][NextSync]_vars

----------------------------------------------------------------------------
(* watch::run (watch.rs 175-212): the loop of `corky watch`.  The Ctrl-C    *)
(* task sets the shutdown flag at any moment; the loop reads it at line 196 *)
(* and at line 207, and between the two it awaits the blocking task that   *)
(* runs poll_once.                                                         *)

MaxWatchEnvs == 2

\* Lines 186-190: the operator interrupts; the spawned task stores the flag.
Interrupt ==
    /\ daemon.pc \in {"top", "spawn", "polling", "sleeping"}
    /\ ~daemon.shutdown
    /\ daemon' = [daemon EXCEPT !.shutdown = TRUE, !.at = proc.pc, !.when = daemon.pc]
    /\ UNCHANGED <<fs, ret, hist, codecIn, codecOut, config, server, disk, state, proc, touched,
                   manifest, ev, budget>>

\* WatchTop without the test of the flag of lines 196-198.
WatchTop_unchecked ==
    /\ daemon.pc = "top"
    /\ budget.runs > 0
    /\ daemon' = [daemon EXCEPT !.pc = "spawn"]
    /\ UNCHANGED <<fs, ret, hist, codecIn, codecOut, config, server, disk, state, proc, touched,
                   manifest, ev, budget>>

\* Lines 196-198: the flag is read at the top of the loop.
WatchTop ==
    /\ daemon.pc = "top"
    /\ daemon.shutdown \/ budget.runs > 0
    /\ daemon' = [daemon EXCEPT !.pc = IF daemon.shutdown THEN "stopped" ELSE "spawn"]
    /\ UNCHANGED <<fs, ret, hist, codecIn, codecOut, config, server, disk, state, proc, touched,
                   manifest, ev, budget>>

\* Lines 200-204: poll_once is spawned on the blocking pool.  `after` counts
\* the cycles that start when the flag is already set.
WatchSpawn ==
    /\ daemon.pc = "spawn"
    /\ daemon' = [daemon EXCEPT !.pc = "polling",
                                !.after = IF daemon.shutdown THEN @ + 1 ELSE @]
    /\ BeginPoll

\* spawn_blocking WatchJoin without the .await.
Joined_not_awaited == TRUE

\* Line 205: `.await` returns when poll_once has returned.
Joined == proc.pc = "idle"

\* Lines 205-209: the blocking task is joined, then the flag is read.
WatchJoin ==
    /\ daemon.pc = "polling"
    /\ Joined
    /\ daemon' = [daemon EXCEPT !.pc = IF daemon.shutdown THEN "stopped" ELSE "sleeping"]
    /\ UNCHANGED <<fs, ret, hist, codecIn, codecOut, config, server, disk, state, proc, touched,
                   manifest, ev, budget>>

\* Line 211: the sleep of `interval` seconds ends.
WatchWake ==
    /\ daemon.pc = "sleeping"
    /\ daemon' = [daemon EXCEPT !.pc = "top"]
    /\ UNCHANGED <<fs, ret, hist, codecIn, codecOut, config, server, disk, state, proc, touched,
                   manifest, ev, budget>>

\* A step of the blocking task that runs poll_once, other than sync_label.
PollStep == PasswordFails \/ ConnectFails \/ Connect \/ EndAccount \/ SavePoll

NextWatch ==
    \/ Interrupt
    \/ WatchTop
    \/ WatchSpawn
    \/ WatchJoin
    \/ WatchWake
    \/ PollStep
    \/ SyncLabel
    \/ \E f \in DOMAIN server, kind \in {"ok", "bad"} : Deliver(f, kind)
    \/ \E f \in DOMAIN server : Recreate(f)

\* The loop task is scheduled by the runtime and its sleep ends; the blocking
\* task runs on its own thread and every call it makes returns: both keep
\* taking steps.  The last conjunct is WF_vars(SyncLabel) with the
\* enabling condition written out: a sync_label call can always be made when
\* the label loop has a label left.
SpecWatch ==
    /\ InitWith(OneAccount, MaxWatchEnvs, 0, [NoDaemon EXCEPT !.pc = "top"])
    /\ [][NextWatch]_vars
    /\ WF_vars(WatchTop \/ WatchSpawn \/ WatchJoin \/ WatchWake)
    /\ WF_vars(PollStep)
    /\ (<>[](proc.pc = "labels" /\ proc.labels # <<>>) => []<><<SyncLabel>>_vars)

----------------------------------------------------------------------------
(* cleanup_orphans on its own: run() stands at line 86 of a full resync     *)
(* with an arbitrary touched set and an arbitrary conversation directory.   *)

MaxOrphanFiles == 3

InitOrphan ==
    /\ \E D \in SUBSET { <<"A", ".", "m", "d">>, <<"B", ".", "m", "d">>,
                          <<"C", ".", "t", "x", "t">>, <<".", "m", "d">>,
                          <<"D", ".", "M", "D">> } :
         /\ Cardinality(D) <= MaxOrphanFiles
         /\ fs = [d \in Dirs |-> IF d = ConvDir THEN [n \in D |-> [text |-> n, mtime |-> 0]] ELSE <<>>]
    /\ \E T \in SUBSET { <<ConvDir, <<"A", ".", "m", "d">> >>,
                          <<ConvDir, <<"B", ".", "m", "d">> >>,
                          <<ConvDir, <<"C", ".", "t", "x", "t">> >>,
                          <<SharedDir, <<"B", ".", "m", "d">> >> } : touched = Some(T)
    /\ ret = None
    /\ hist = <<>>
    /\ codecIn = None
    /\ codecOut = [done |-> TRUE]
    /\ config = TwoAccounts
    /\ server = [f \in Folders(TwoAccounts) |-> EmptyFolder(1)]
    /\ disk = <<>>
    /\ state = <<>>
    /\ proc = [pc |-> "accounts", kind |-> "cli", full |-> TRUE, names |-> <<>>,
               acct |-> <<>>, labels |-> <<>>, exit |-> "none"]
    /\ manifest = <<>>
    /\ ev = [op |-> "none"]
    /\ daemon = NoDaemon
    /\ budget = [runs |-> 0, envs |-> 0, faults |-> 0, anon |-> 0]

SpecOrphan == InitOrphan /\ [][Cleanup]_vars

----------------------------------------------------------------------------
(* Claims about the sync cursor (SpecCursor).                              *)

\* A step of the process that is a sync_label call.
AtSyncLabel == proc.pc = "labels" /\ proc.labels # <<>>

CurrentFolder == server[<<proc.acct, Head(proc.labels)>>]

CurrentPrior == Prior(state[proc.acct].labels, Head(proc.labels))

\* The three conditions the specification gives for full mode.
FullModeExpected ==
    \/ proc.full
    \/ ~CurrentPrior.some
    \/ CurrentPrior.v.uidvalidity # CurrentFolder.uidvalidity

\* C5: a label is synced in full mode (a SINCE search whose whole result is
\* fetched) if and only if the caller asked for a full resync, or no
\* LabelState is stored, or the folder's UIDVALIDITY differs from the stored
\* one; otherwise the sync is incremental (a UID search, of which the
\* ordinals above the stored last_uid are fetched).
C5_FetchMode ==
    [][ (AtSyncLabel /\ ev'.result # "skipped") =>
          IF FullModeExpected
          THEN /\ ev'.search = "SINCE"
               /\ ev'.result = "ok" =>
                    ev'.uids = { u \in DOMAIN CurrentFolder.msgs : CurrentFolder.msgs[u].recent }
          ELSE /\ ev'.search = "UID"
               /\ ev'.result = "ok" =>
                    ev'.uids = { u \in DOMAIN CurrentFolder.msgs : u > CurrentPrior.v.last_uid }
      ]_vars

\* A UIDVALIDITY change forced a full search although a cursor was stored.
C5_Witness ==
    /\ ev.op = "sync_label"
    /\ ~ev.full
    /\ ev.prior.some
    /\ ev.prior.v.last_uid > 0
    /\ ev.prior.v.uidvalidity # ev.uidvalidity
    /\ ev.search = "SINCE"
    /\ ev.uids # {}
    /\ ev.result = "ok"

HasLabel(st, a, l) == a \in DOMAIN st /\ l \in DOMAIN st[a].labels

\* last_uid of (a, l) does not decrease from st to st2 when both hold the
\* label under the same uidvalidity.
CursorKept(st, st2) ==
    \A a \in DOMAIN st : \A l \in DOMAIN st[a].labels :
        (HasLabel(st2, a, l) /\ st2[a].labels[l].uidvalidity = st[a].labels[l].uidvalidity)
            => st2[a].labels[l].last_uid >= st[a].labels[l].last_uid

\* C6: in the steps of a run that is not a full resync, the last_uid of a
\* label whose uidvalidity stays the same never decreases, in the SyncState
\* of the run and in the file it is saved to; an incremental sync_label that
\* finds nothing new stores the LabelState it found.
C6_CursorMonotonic ==
    [][ /\ (proc.pc # "idle" /\ ~proc.full) => (CursorKept(state, state') \/ proc'.pc = "idle")
        /\ (proc.pc # "idle" /\ ~proc.full) => CursorKept(disk, disk')
        /\ (AtSyncLabel /\ ~FullModeExpected /\ ev'.result = "ok" /\ ev'.uids = {})
              => /\ HasLabel(state', proc.acct, Head(proc.labels))
                 /\ state'[proc.acct].labels[Head(proc.labels)] = CurrentPrior.v
      ]_vars

\* An incremental run found no new message and kept a cursor above 0.
C6_Witness ==
    /\ ev.op = "sync_label"
    /\ ev.search = "UID"
    /\ ev.result = "ok"
    /\ ev.uids = {}
    /\ ev.post.some
    /\ ev.post.v.last_uid > 0
    /\ ev.post.v = ev.prior.v

\* C7: when sync_label finds a UIDVALIDITY other than the stored one, the
\* LabelState it stores has the new uidvalidity and a last_uid that is 0 or
\* an ordinal of the search result, not the stale last_uid.
C7_StaleCursorDiscarded ==
    [][ (/\ AtSyncLabel
         /\ CurrentPrior.some
         /\ CurrentPrior.v.uidvalidity # CurrentFolder.uidvalidity
         /\ ev'.result = "ok")
          => /\ HasLabel(state', proc.acct, Head(proc.labels))
             /\ state'[proc.acct].labels[Head(proc.labels)].uidvalidity = CurrentFolder.uidvalidity
             /\ state'[proc.acct].labels[Head(proc.labels)].last_uid \in ev'.uids \cup {0}
      ]_vars

----------------------------------------------------------------------------
(* Claims about the fan-out write (SpecFanout).                            *)

\* The text of a thread file has a section with the heading of message m.
HoldsMessage(text, m) == SectionCount(text, m) >= 1

\* The directories sync_label is handed for the label it syncs.
CurrentDirs == out_dirs(build_label_routes(config.routing, proc.acct), Head(proc.labels))

\* The messages of the current folder that the call fetched and parsed.
FetchedMessages(uids) ==
    { MessageOf(proc.acct, Head(proc.labels), CurrentFolder.uidvalidity, u,
                CurrentFolder.msgs[u].kind) :
        u \in { v \in uids : CurrentFolder.msgs[v].kind # "bad" } }

\* C11: after a sync_label call that returned Ok, every directory of the
\* label (the primary one and every routed one) holds a thread file with
\* each message the call fetched and parsed, and that file is in the touched
\* set when the run keeps one.
C11_FanOutWrite ==
    [][ (AtSyncLabel /\ ev'.result = "ok") =>
          \A m \in FetchedMessages(ev'.uids) :
            \A k \in 1..Len(CurrentDirs) :
              \E n \in DOMAIN fs'[CurrentDirs[k]] :
                 /\ HoldsMessage(fs'[CurrentDirs[k]][n].text, m)
                 /\ touched.some => <<CurrentDirs[k], n>> \in touched'.v
      ]_vars



\* run() stands before line 86: the account loop of a CLI run has ended.
AtCleanup == proc.pc = "accounts" /\ proc.names = <<>> /\ proc.kind = "cli"

\* The .md files of directory dir that are not in the touched set T.
Orphans(files, dir, T) == { n \in DOMAIN files : IsMd(n) /\ <<dir, n>> \notin T }

\* C8: after cleanup_orphans the conversation directory holds exactly the
\* files it held before minus the .md files that are not in the touched
\* set, every remaining file unchanged; the other directories are as before.
C8_OrphansRemoved ==
    [][ (AtCleanup /\ touched.some) =>
          /\ DOMAIN fs'[ConvDir] = DOMAIN fs[ConvDir] \ Orphans(fs[ConvDir], ConvDir, touched.v)
          /\ \A n \in DOMAIN fs'[ConvDir] : fs'[ConvDir][n] = fs[ConvDir][n]
          /\ \A d \in Dirs \ {ConvDir} : fs'[d] = fs[d]
      ]_vars

\* touched = {A.md} and the directory {A.md, B.md, C.txt} give {A.md, C.txt}.
C8_Witness ==
    /\ ev.op = "cleanup"
    /\ ev.touched = Some({ <<ConvDir, <<"A", ".", "m", "d">> >> })
    /\ ev.before = { <<"A", ".", "m", "d">>, <<"B", ".", "m", "d">>, <<"C", ".", "t", "x", "t">> }
    /\ DOMAIN fs[ConvDir] = { <<"A", ".", "m", "d">>, <<"C", ".", "t", "x", "t">> }

\* Some file of directory d is gone after the step.
Deletes(d) == \E n \in DOMAIN fs[d] : n \notin DOMAIN fs'[d]

\* C9: a step deletes a file only if it is the orphan reconciliation of a full
\* resync, taken after the account loop has ended, and the file is in the
\* primary conversation directory; a run that is not full deletes nothing and
\* nothing is ever deleted from a fan-out directory.
C9_DeletionScope ==
    [][ \A d \in Dirs :
          Deletes(d) => (d = ConvDir /\ AtCleanup /\ proc.full /\ touched.some)
      ]_vars

\* A full resync removed a thread file from the primary directory and left
\* the copy in the fan-out directory.
C9_Witness ==
    /\ ev.op = "cleanup"
    /\ proc.pc = "manifest"
    /\ proc.full
    /\ \E n \in ev.before : n \notin DOMAIN fs[ConvDir] /\ n \in DOMAIN fs[SharedDir]

\* C10: when connect_imap fails for an account, the run goes on with the
\* next account of its list.
C10_ConnectFailureSkipsAccount ==
    [][ (proc.pc = "accounts" /\ proc.names # <<>> /\ ev' # ev /\ ev'.op = "account"
         /\ ev'.result = "connect failed")
          => (proc'.pc = "accounts" /\ proc'.names = Tail(proc.names))
      ]_vars

----------------------------------------------------------------------------
(* Claims about label and account accumulation (SpecMerge).                *)

\* The non-empty values of field f ("label" or "account") of the calls that
\* returned file n, each once, in the order the calls were made.
MergedInto(n, f) ==
    LET calls == SelectSeq(hist, LAMBDA h : h.ret = Some(n) /\ h[f] # <<>>)
    IN  Dedup([i \in DOMAIN calls |-> calls[i][f]], {})

\* list has no entry twice and holds the entries of merged in their order.
Accumulated(list, merged) ==
    /\ \A i, j \in DOMAIN list : list[i] = list[j] => i = j
    /\ SelectSeq(list, LAMBDA x : \E k \in DOMAIN merged : merged[k] = x) = merged

\* C13: the labels and the accounts decoded from a thread file hold every
\* label and account that was merged into it, in first-seen order, and no
\* entry twice.
C13_AccumulatedOnce ==
    \A n \in DOMAIN fs[ConvDir] :
        LET t == DecodedFile(ConvDir, n)
        IN  t.some => /\ Accumulated(t.v.labels, MergedInto(n, "label"))
                      /\ Accumulated(t.v.accounts, MergedInto(n, "account"))

\* The list (field "labels" or "accounts") decoded from file n of files, the
\* empty list when there is no such file.
ListBefore(files, n, field) ==
    IF n \in DOMAIN files /\ parse_thread_markdown(files[n].text).some
    THEN parse_thread_markdown(files[n].text).v[field]
    ELSE <<>>

\* C14: a merge with the empty label leaves the labels decoded from the file
\* it returns as they were before the merge (empty for a new file), and a
\* merge with the empty account does so for the accounts.
C14_EmptyNotRecorded ==
    [][ (Len(hist') = Len(hist) + 1 /\ LastCall.ret.some) =>
          /\ LastCall.label = <<>> =>
                ListBefore(fs'[ConvDir], LastCall.ret.v, "labels")
                    = ListBefore(fs[ConvDir], LastCall.ret.v, "labels")
          /\ LastCall.account = <<>> =>
                ListBefore(fs'[ConvDir], LastCall.ret.v, "accounts")
                    = ListBefore(fs[ConvDir], LastCall.ret.v, "accounts")
      ]_vars

----------------------------------------------------------------------------
(* Claims about the watch daemon (SpecWatch).                              *)

\* poll_once is running.
InCycle == proc.pc # "idle"

----------------------------------------------------------------------------
(* Claims about the Label Router (SpecRoutes).                             *)

\* The routing key is L, or is A:L (split at its first colon) with A the
\* account, any A when the account is the empty string.
KeyMatches(key, account_name, L) ==
    LET colon == IndexFrom(key, ":", 1)
    IN  IF colon > Len(key) THEN key = L
        ELSE /\ SubSeq(key, colon + 1, Len(key)) = L
             /\ account_name = <<>> \/ SubSeq(key, 1, colon - 1) = account_name

\* The destinations of the keys of routing that match, in the order of the
\* keys: <mailbox path>/conversations for each path of a key.
RECURSIVE Destinations(_, _, _)
Destinations(routing, account_name, L) ==
    IF routing = <<>> THEN <<>>
    ELSE (IF KeyMatches(Head(routing).key, account_name, L)
          THEN [i \in DOMAIN Head(routing).mailbox_paths |->
                  <<Head(routing).mailbox_paths[i], "conversations">>]
          ELSE <<>>)
         \o Destinations(Tail(routing), account_name, L)

\* C16: build_label_routes(account) has an entry for label L exactly when a
\* routing key matches L for the account (the bare label, or A:L with A the
\* account or the account empty), and the entry is the concatenation of the
\* destinations of all matching keys.
C16_RouterScoping ==
    ev.op = "routes" =>
        \A L \in { <<"m">>, <<"l">>, <<"m", ":", "l">>, <<>> } \cup DOMAIN ev.routes :
            LET dest == Destinations(config.routing, ev.account, L)
            IN  IF \E i \in DOMAIN config.routing :
                      KeyMatches(config.routing[i].key, ev.account, L)
                THEN L \in DOMAIN ev.routes /\ ev.routes[L] = dest
                ELSE L \notin DOMAIN ev.routes

\* For account a the keys m and a:m both route label m, and b:m does not.
C16_Witness ==
    /\ ev.op = "routes"
    /\ ev.account = <<"a">>
    /\ { config.routing[i].key : i \in DOMAIN config.routing }
         = { <<"m">>, <<"a", ":", "m">>, <<"b", ":", "m">> }
    /\ config.routing[1].key # <<"b", ":", "m">>
    /\ config.routing[1].mailbox_paths = <<"shared">>
    /\ DOMAIN ev.routes = { <<"m">> }
    /\ Len(ev.routes[<<"m">>]) >= 2
    /\ ev.routes[<<"m">>][1] = <<"shared", "conversations">>

----------------------------------------------------------------------------
(* Claims about the manifest (SpecSync).                                   *)

\* The manifest has one entry, under the file stem, for every .md file of the
\* primary conversation directory that decodes, with the metadata decoded
\* from the file, and no other entry.
ManifestFresh ==
    /\ \A n \in DOMAIN fs[ConvDir] :
          (IsMd(n) /\ DecodedFile(ConvDir, n).some) =>
              /\ SubSeq(n, 1, Len(n) - 3) \in DOMAIN manifest
              /\ manifest[SubSeq(n, 1, Len(n) - 3)].thread_id = DecodedFile(ConvDir, n).v.id
              /\ manifest[SubSeq(n, 1, Len(n) - 3)].labels = DecodedFile(ConvDir, n).v.labels
              /\ manifest[SubSeq(n, 1, Len(n) - 3)].last_updated
                    = DecodedFile(ConvDir, n).v.last_date
    /\ \A slug \in DOMAIN manifest :
          /\ MdName(slug) \in DOMAIN fs[ConvDir]
          /\ DecodedFile(ConvDir, MdName(slug)).some

\* C17: when a run (`corky sync` or a watch cycle) has finished, the
\* manifest has exactly one entry for each decodable .md file of the primary
\* conversation directory and no entry for a file that is gone or does not
\* decode.
C17_ManifestFresh == (proc.pc = "idle" /\ proc.exit = "ok") => ManifestFresh

----------------------------------------------------------------------------
(* Claims about the cursor update (SpecCursor).                            *)

\* The largest of the searched ordinals and the prior last_uid (0 without
\* prior state).
LargestOrdinal(uids, prior) ==
    CHOOSE m \in uids \cup {IF prior.some THEN prior.v.last_uid ELSE 0} :
        \A u \in uids \cup {IF prior.some THEN prior.v.last_uid ELSE 0} : u <= m

\* C18: a sync_label call that completes with a non-empty search result
\* stores the current uidvalidity and, as last_uid, the maximum of all the
\* ordinals of the search result (skipped messages included) and the prior
\* last_uid.
C18_CursorIsMaximum ==
    [][ (AtSyncLabel /\ ev'.result = "ok" /\ ev'.uids # {})
          => /\ HasLabel(state', proc.acct, Head(proc.labels))
             /\ state'[proc.acct].labels[Head(proc.labels)]
                  = [uidvalidity |-> CurrentFolder.uidvalidity,
                     last_uid |-> LargestOrdinal(ev'.uids, CurrentPrior)]
      ]_vars

----------------------------------------------------------------------------
(* Claims about a matched file that does not decode (SpecMerge).           *)

\* The files find_thread_file can return for the thread key all fail to
\* decode.
MatchUndecodable(files, thread_id) ==
    /\ find_thread_file(files, thread_id) # {None}
    /\ \A ef \in find_thread_file(files, thread_id) :
          ~parse_thread_markdown(files[ef.v].text).some

\* C19: when the file matched by Thread ID fails to decode, the merge leaves
\* every file of the directory as it was and writes the fresh thread, seeded
\* from the incoming message, to a file name that was unused.
C19_DecodeFailureForks ==
    [][ (/\ Len(hist') = Len(hist) + 1
         /\ MatchUndecodable(fs[ConvDir], LastCall.thread_key))
          => /\ \A n \in DOMAIN fs[ConvDir] :
                   n \in DOMAIN fs'[ConvDir] /\ fs'[ConvDir][n] = fs[ConvDir][n]
             /\ LastCall.ret.some
             /\ LastCall.ret.v \notin DOMAIN fs[ConvDir]
             /\ LastCall.ret.v \in DOMAIN fs'[ConvDir]
      ]_vars

----------------------------------------------------------------------------
(* Claims about a folder that cannot be selected (SpecSync).               *)

\* C20: when select fails for a label, sync_label returns Ok without a
\* search or fetch, the stored LabelState of every label of every account
\* and the files stay as they were, and sync_account continues with the
\* account's remaining labels.
C20_SelectFailureSkips ==
    [][ (AtSyncLabel /\ ev'.op = "sync_label" /\ ev'.result = "skipped")
          => /\ ev'.search = "none"
             /\ ev'.uids = {}
             /\ state' = state
             /\ fs' = fs
             /\ touched' = touched
             /\ proc'.pc = "labels"
             /\ proc'.acct = proc.acct
             /\ proc'.labels = Tail(proc.labels)
      ]_vars

\* In the first run, label l of account a was skipped (it has no LabelState)
\* and label m, the next one, has been synced with a message fetched.
C20_Witness ==
    /\ budget.runs = MaxRuns - 1
    /\ ev.op = "sync_label"
    /\ ev.account = <<"a">>
    /\ ev.label = <<"m">>
    /\ ev.result = "ok"
    /\ ev.uids # {}
    /\ HasLabel(state, <<"a">>, <<"m">>)
    /\ ~HasLabel(state, <<"a">>, <<"l">>)

----------------------------------------------------------------------------
(* Claims about a mail that does not parse (SpecFanout).                   *)

\* The folder without the mails that have no body or do not parse.
WithoutUnparsed(folder) ==
    [folder EXCEPT !.msgs = [u \in { v \in DOMAIN @ : @[v].kind # "bad" } |-> @[u]]]

\* The file systems a successful sync_label of the current label can leave
\* when the folder is the given one.
FilesAfterSync(folder) ==
    { out.fs : out \in { o \in sync_label([folder |-> folder,
                                           label_name |-> Head(proc.labels),
                                           account_name |-> proc.acct,
                                           labels |-> state[proc.acct].labels,
                                           full |-> proc.full, dirs |-> CurrentDirs,
                                           files |-> fs, touched |-> touched]) :
                           o.result = "ok" } }

\* C21: a sync_label call that fetched a mail that does not parse, and met
\* no transport fault, returns Ok and stores a LabelState of the current uidvalidity; the files it leaves
\* are those a sync of the folder without that mail leaves (nothing is
\* written for it), and every fetched mail that parsed and has a sender is
\* in a thread file of every directory of the label.
C21_ParseFailureSkipsOne ==
    [][ (/\ AtSyncLabel
         /\ ev'.op = "sync_label"
         /\ budget'.faults = budget.faults
         /\ \E u \in ev'.uids : CurrentFolder.msgs[u].kind = "bad")
          => /\ ev'.result = "ok"
             /\ HasLabel(state', proc.acct, Head(proc.labels))
             /\ state'[proc.acct].labels[Head(proc.labels)].uidvalidity = CurrentFolder.uidvalidity
             /\ fs' \in FilesAfterSync(WithoutUnparsed(CurrentFolder))
             /\ \A m \in FetchedMessages(ev'.uids) :
                  m.from # <<>> =>
                    \A k \in 1..Len(CurrentDirs) :
                      \E n \in DOMAIN fs'[CurrentDirs[k]] :
                         HoldsMessage(fs'[CurrentDirs[k]][n].text, m)
      ]_vars

\* Label m of account a was synced with two mails fetched, one that does not
\* parse and one that does; both directories of the label hold a thread file
\* and the cursor is stored.
C21_Witness ==
    /\ ev.op = "sync_label"
    /\ ev.result = "ok"
    /\ ev.uids = {1, 2}
    /\ \E u \in ev.uids : server[<<ev.account, ev.label>>].msgs[u].kind = "bad"
    /\ \E u \in ev.uids : server[<<ev.account, ev.label>>].msgs[u].kind = "ok"
    /\ fs[ConvDir] # <<>>
    /\ fs[SharedDir] # <<>>
    /\ HasLabel(state, ev.account, ev.label)

----------------------------------------------------------------------------
(* Claims about the duplicate path (SpecMerge).                            *)

\* File n of files decodes to a thread that has a message with the sender
\* and date of message.
DuplicateIn(files, n, message) ==
    /\ parse_thread_markdown(files[n].text).some
    /\ IsDuplicate(parse_thread_markdown(files[n].text).v, message)

----------------------------------------------------------------------------
(* Claims about the incremental range (SpecCursor).                        *)

\* C23: a sync_label call in incremental mode fetches no ordinal that is less
\* than or equal to the stored last_uid, and leaves the files as they are
\* when the folder has no ordinal above it, although the server answers the
\* search 'UID n:*' with the highest ordinal of the folder.
C23_IncrementalRange ==
    [][ (AtSyncLabel /\ ev'.op = "sync_label" /\ ev'.search = "UID")
          => /\ \A u \in ev'.uids : u > CurrentPrior.v.last_uid
             /\ (\A u \in DOMAIN CurrentFolder.msgs : u <= CurrentPrior.v.last_uid)
                   => fs' = fs /\ ev'.uids = {}
      ]_vars

\* An incremental sync of a folder whose highest ordinal, 1, is the stored
\* last_uid: the server returned it, nothing was fetched.
C23_Witness ==
    /\ ev.op = "sync_label"
    /\ ev.search = "UID"
    /\ ev.result = "ok"
    /\ ev.prior.v.last_uid = 1
    /\ DOMAIN server[<<ev.account, ev.label>>].msgs = {1}
    /\ SearchFrom(server[<<ev.account, ev.label>>], 2) = {1}
    /\ ev.uids = {}
    /\ fs[ConvDir] # <<>>

----------------------------------------------------------------------------
(* Claims about messages the cursor passes over (SpecCursor).              *)

\* C24: the LabelState a successful sync_label stores has a last_uid that is
\* at most the largest ordinal present in the folder (0 for an empty
\* folder), so that every message that arrives later, whose ordinal is
\* larger, is above the cursor of the next incremental run.
C24_NoMessageMissed ==
    [][ (AtSyncLabel /\ ev'.op = "sync_label" /\ ev'.result = "ok")
          => /\ HasLabel(state', proc.acct, Head(proc.labels))
             /\ state'[proc.acct].labels[Head(proc.labels)].last_uid < CurrentFolder.uidnext
             /\ \/ state'[proc.acct].labels[Head(proc.labels)].last_uid = 0
                \/ state'[proc.acct].labels[Head(proc.labels)].last_uid
                     \in DOMAIN CurrentFolder.msgs
      ]_vars

----------------------------------------------------------------------------
(* Claims about the messages a thread file holds (SpecMerge).              *)

\* C25: a merge removes no file, and every message whose section (the
\* heading with its sender and date) is in a file before the merge has its
\* section in that file after it.
C25_MergeKeepsMessages ==
    [][ Len(hist') = Len(hist) + 1 =>
          \A n \in DOMAIN fs[ConvDir] :
             /\ n \in DOMAIN fs'[ConvDir]
             /\ \A m \in MergeMessages :
                  HoldsMessage(fs[ConvDir][n].text, m) => HoldsMessage(fs'[ConvDir][n].text, m)
      ]_vars

----------------------------------------------------------------------------
(* Claims about what a full resync deletes (SpecSync).                     *)

\* The SyncState of the run has a LabelState for every label of every
\* configured account: each was synced in this full run.
EveryLabelSynced ==
    \A a \in DOMAIN config.accounts :
        \A labels \in all_labels(config.accounts[a], build_label_routes(config.routing, a)) :
            \A k \in 1..Len(labels) : HasLabel(state, a, labels[k])

\* C26: the orphan reconciliation of a full resync removes a thread file of
\* the primary conversation directory only when every label of every account
\* was synced in the run: not when an account was left out by --account or a
\* label was skipped because its folder could not be selected.
C26_DeletesOnlyAfterFullCoverage ==
    [][ Deletes(ConvDir) => EveryLabelSynced ]_vars

----------------------------------------------------------------------------
(* Claims about the touched set of a full resync (SpecFanout, where a      *)
(* sender and date are those of one mail).                                 *)

\* C27: in a full run, after a sync_label call that returned Ok every file of
\* the primary directory that has the section of a message the call fetched
\* (it received the message or contained it already) is in the touched set;
\* the set only grows during the run; and the orphan reconciliation leaves
\* every file of the set in place.
C27_MergedFilesSurvive ==
    [][ /\ (AtSyncLabel /\ proc.full /\ ev'.op = "sync_label" /\ ev'.result = "ok")
            => /\ touched'.some
               /\ touched.v \subseteq touched'.v
               /\ \A m \in FetchedMessages(ev'.uids) :
                    \A n \in DOMAIN fs'[ConvDir] :
                       HoldsMessage(fs'[ConvDir][n].text, m) => <<ConvDir, n>> \in touched'.v
        /\ (AtCleanup /\ proc.full /\ proc'.pc = "manifest")
            => \A n \in DOMAIN fs[ConvDir] :
                  <<ConvDir, n>> \in touched.v => /\ n \in DOMAIN fs'[ConvDir]
                                                  /\ fs'[ConvDir][n] = fs[ConvDir][n]
      ]_vars

----------------------------------------------------------------------------
(* Claims about a sync_label call that fails part-way (SpecFanout).        *)

\* C28: a sync_label call that fails (the search or a fetch) leaves the
\* LabelState of every label as it was, in the SyncState of the run, unless
\* the run ends there, and in the saved file; a call changes the LabelState
\* of its label only when it returns Ok, and then every mail it fetched and
\* parsed is deduplicated: in each directory of the label at most one thread
\* file has its section, once, the mails a failed call had already written
\* included.
C28_CursorAfterLabel ==
    [][ AtSyncLabel =>
          /\ (ev'.op = "sync_label" /\ ev'.result = "err")
                => disk' = disk /\ (state' = state \/ proc'.pc = "idle")
          /\ (proc'.pc # "idle" /\ Prior(state'[proc.acct].labels, Head(proc.labels)) # CurrentPrior)
                => /\ ev'.op = "sync_label"
                   /\ ev'.result = "ok"
                   /\ \A m \in FetchedMessages(ev'.uids) :
                        \A k \in 1..Len(CurrentDirs) :
                          \A n1, n2 \in DOMAIN fs'[CurrentDirs[k]] :
                             /\ SectionCount(fs'[CurrentDirs[k]][n1].text, m) <= 1
                             /\ (/\ HoldsMessage(fs'[CurrentDirs[k]][n1].text, m)
                                 /\ HoldsMessage(fs'[CurrentDirs[k]][n2].text, m)) => n1 = n2
      ]_vars

----------------------------------------------------------------------------
(* Claims about what a thread file decodes to (SpecMerge).                 *)

\* The messages of the calls that returned file n.
MessagesInto(n) == { hist[j].message : j \in { i \in DOMAIN hist : hist[i].ret = Some(n) } }

\* C29: a thread file that decodes has the Thread ID of the key of every
\* merge that returned it, and no more messages than were merged into it,
\* whatever the bodies of the messages and whichever metadata values are
\* empty.
C29_ContentCannotChangeMetadata ==
    \A i \in DOMAIN hist :
        (hist[i].ret.some /\ DecodedFile(ConvDir, hist[i].ret.v).some)
            => /\ DecodedFile(ConvDir, hist[i].ret.v).v.id = hist[i].thread_key
               /\ Len(DecodedFile(ConvDir, hist[i].ret.v).v.messages)
                    <= Cardinality(MessagesInto(hist[i].ret.v))

----------------------------------------------------------------------------
(* Claims about the shutdown of the watch daemon (SpecWatch).              *)

\* C30: once the interrupt has been received the daemon eventually stops and
\* stays stopped; at most one poll cycle starts after the interrupt, and only
\* when the interrupt came between the test of the flag at the top of the
\* loop and the start of the cycle; no cycle starts once the loop has read
\* the flag set.
C30_ShutdownLiveness ==
    /\ (daemon.shutdown ~> daemon.pc = "stopped")
    /\ [](daemon.after <= 1 /\ (daemon.after = 1 => daemon.when = "spawn"))
    /\ [][ /\ daemon.pc = "stopped" => (daemon'.pc = "stopped" /\ proc' = proc)
           /\ daemon.shutdown => daemon'.shutdown
           /\ (daemon.shutdown /\ daemon.pc \in {"top", "polling"} /\ daemon'.pc # daemon.pc)
                 => daemon'.pc = "stopped"
         ]_vars

\* The interrupt came after the test of the flag; one more cycle ran, saved
\* the state it synced, and the daemon stopped.
C30_Witness ==
    /\ daemon.pc = "stopped"
    /\ daemon.when = "spawn"
    /\ daemon.after = 1
    /\ ev.op = "save"
    /\ disk # <<>>

====
